---- MODULE Spec2Model ----
(***************************************************************************)
(* Model of image_classification/RepLKNet/config.py: the default config    *)
(* tree _C, _update_config_from_file (YAML merge with BASE chaining),      *)
(* update_config (command line overrides) and get_config.                  *)
(*                                                                         *)
(* The config object is a yacs CfgNode: a mapping plus an immutable flag.  *)
(* defrost() clears the flag, freeze() sets it, attribute assignment       *)
(* (cfg.X = v) is refused while the flag is set, and merge_from_file       *)
(* writes its keys with item assignment (b[k] = v), one key after the      *)
(* other in file order, raising KeyError at the first key the config does  *)
(* not hold; item assignment does not look at the flag.                    *)
(*                                                                         *)
(* Nested keys are flattened (TRAIN.LAST_EPOCH is TRAIN_LAST_EPOCH). All   *)
(* files live in one directory, so os.path.join(os.path.dirname(f), b) is  *)
(* the name b. An optional value is a sequence: <<>> is None, <<v>> is v.  *)
(***************************************************************************)
EXTENDS Integers, Sequences, FiniteSets, TLC

VARIABLES
    fs,          \* the YAML files on disk: name -> [base, keys]
    cfg_file,    \* the argument of get_config
    args,        \* the ArgumentParser namespace handed to update_config
    config,      \* the values of the config object
    immutable,   \* the config object's frozen flag
    stack,       \* the active calls of _update_config_from_file, outermost first
    pc,          \* where the calling script is
    err,         \* the exception that ended the run, "none" if none
    before,      \* history: config at the entry of the outermost merge call
    applied,     \* history: files whose own keys line 130 merged, in order
    wroteFrozen  \* history: line 130 wrote a key while the flag was set

vars == <<fs, cfg_file, args, config, immutable, stack, pc, err,
          before, applied, wroteFrozen>>

-----------------------------------------------------------------------------
(* Bounds of the exploration                                               *)

\* size of the input of one run: the BASE entries and keys of the YAML files
\* it reads plus the command line options it is given
MaxSize == 3
\* depth of the interpreter's call stack (sys.getrecursionlimit(), scaled)
RecursionLimit == 4

-----------------------------------------------------------------------------
(* Values                                                                  *)

None == <<>>
Some(v) == <<v>>

\* Python truthiness of an optional int / str / path (if args.x:)
TruthyInt(o) == o # None /\ o[1] # 0
TruthyStr(o) == o # None /\ o[1] # ""

\* files with a parsed content; "M" exists and is malformed; "X" does not exist
Files == {"A", "B", "C"}
Malformed == "M"
Missing == "X"
BaseNames == Files \cup {"", Missing}

\* _C, lines 23-110: the keys that update_config or the modelled YAML files write
_C ==
    [ BASE |-> <<"">>,
      DATA_BATCH_SIZE |-> 64,
      DATA_BATCH_SIZE_EVAL |-> None,
      DATA_DATA_PATH |-> "/dataset/imagenet/",
      DATA_DATASET |-> "imagenet2012",
      DATA_IMAGE_SIZE |-> 224,
      MODEL_RESUME |-> None,
      MODEL_PRETRAINED |-> None,
      TRAIN_LAST_EPOCH |-> 0,
      TRAIN_ACCUM_ITER |-> 1,
      EVAL |-> FALSE,
      AMP |-> FALSE ]

-----------------------------------------------------------------------------
(* Inputs: YAML files                                                      *)

\* the <<key, value>> lines a YAML file may hold besides BASE; TYPO is a key
\* the default tree does not have
YamlEntries ==
    { <<"TRAIN_LAST_EPOCH", 5>>, <<"TRAIN_LAST_EPOCH", 7>>,
      <<"EVAL", TRUE>>, <<"AMP", TRUE>>, <<"TYPO", 1>> }

SeqsUpTo(S, n) == UNION { [1..k -> S] : k \in 0..n }

\* a YAML mapping holds each key once
KeyLists(n) ==
    { ks \in SeqsUpTo(YamlEntries, n) :
        \A i, j \in 1..Len(ks) : i # j => ks[i][1] # ks[j][1] }

\* a file: its BASE key (None when the file has none) and its other keys in
\* file order; read is FALSE until the run opens the file
Unread == [read |-> FALSE, base |-> None, keys |-> <<>>]

Cost(f) == (IF f.base = None THEN 0 ELSE Len(f.base[1])) + Len(f.keys)

Contents(n) ==
    UNION { { [read |-> TRUE, base |-> b, keys |-> ks] :
                ks \in KeyLists(n - (IF b = None THEN 0 ELSE Len(b[1]))) } :
            b \in {None} \cup { Some(l) : l \in SeqsUpTo(BaseNames, n) } }

ContentsOfSize == [n \in 0..MaxSize |-> Contents(n)]

-----------------------------------------------------------------------------
(* Inputs: the ArgumentParser namespace                                    *)

NoArgs ==
    [ cfg |-> None, dataset |-> None, batch_size |-> None,
      batch_size_eval |-> None, image_size |-> None, accum_iter |-> None,
      data_path |-> None, eval |-> FALSE, pretrained |-> None,
      resume |-> None, last_epoch |-> None, amp |-> FALSE ]

\* one supplied option: field and value (0 and "" are values a user can type)
Options ==
    { <<"cfg", "">>, <<"cfg", "C">>, <<"cfg", Missing>>, <<"cfg", Malformed>>,
      <<"dataset", "">>, <<"dataset", "cifar10">>,
      <<"batch_size", 0>>, <<"batch_size", 32>>,
      <<"batch_size_eval", 0>>, <<"batch_size_eval", 16>>,
      <<"image_size", 0>>, <<"image_size", 384>>,
      <<"accum_iter", 0>>, <<"accum_iter", 2>>,
      <<"data_path", "">>, <<"data_path", "/data">>,
      <<"pretrained", "">>, <<"pretrained", "w.pdparams">>,
      <<"resume", "">>, <<"resume", "ckpt.pdparams">>,
      <<"last_epoch", 0>>, <<"last_epoch", 5>> }

Flags == {"eval", "amp"}

Supply(a, o) == IF a[o[1]] = None THEN [a EXCEPT ![o[1]] = Some(o[2])] ELSE a

RECURSIVE ArgsWith(_)
ArgsWith(n) ==
    IF n = 0 THEN {NoArgs}
    ELSE LET S == ArgsWith(n - 1)
         IN  S \cup { Supply(a, o) : a \in S, o \in Options }
               \cup { [a EXCEPT ![f] = TRUE] : a \in S, f \in Flags }

ArgsOfSize == [n \in 0..MaxSize |-> ArgsWith(n)]

NumOpts(a) ==
    Cardinality({ o \in DOMAIN a \ Flags : a[o] # None })
      + Cardinality({ f \in Flags : a[f] })

RECURSIVE SumCost(_, _)
SumCost(files, S) ==
    IF S = {} THEN 0
    ELSE LET f == CHOOSE x \in S : TRUE
         IN  Cost(files[f]) + SumCost(files, S \ {f})

\* what the run's input may still grow by
Remaining == MaxSize - SumCost(fs, Files) - NumOpts(args)

-----------------------------------------------------------------------------
(* yacs CfgNode.merge_from_file as line 130 uses it                        *)

\* the mapping merge_from_file loads from the file: BASE first when the file
\* has one, then the other keys in file order
OwnEntries(f) ==
    (IF f.base = None THEN <<>> ELSE << <<"BASE", f.base[1]>> >>) \o f.keys

\* _merge_a_into_b: b[k] = v for each key in turn, KeyError at the first key
\* that b does not hold; the keys before it stay written
RECURSIVE MergeEntries(_, _, _)
MergeEntries(cfg, es, n) ==
    IF es = <<>> THEN [config |-> cfg, ok |-> TRUE, written |-> n]
    ELSE IF es[1][1] \in DOMAIN cfg
         THEN MergeEntries([cfg EXCEPT ![es[1][1]] = es[1][2]], Tail(es), n + 1)
         ELSE [config |-> cfg, ok |-> FALSE, written |-> n]

\* mutant of merge_from_file: a merge that writes nothing when it fails
merge_from_file_atomic(cfg, f) ==
    LET r == MergeEntries(cfg, OwnEntries(f), 0)
    IN  IF r.ok THEN r ELSE [config |-> cfg, ok |-> FALSE, written |-> 0]

merge_from_file(cfg, f) == MergeEntries(cfg, OwnEntries(f), 0)

-----------------------------------------------------------------------------
(* _update_config_from_file, lines 113-131                                 *)

\* CfgNode.defrost() and CfgNode.freeze(): the value they give the flag
defrost == FALSE

\* mutant of freeze: line 131 left out
freeze_forgotten == FALSE

freeze == TRUE

\* mutant of ShouldRecurse: a guard that skips a file already being merged
ShouldRecurseGuarded(cfg) ==
    cfg # "" /\ \A i \in 1..Len(stack) : stack[i].cfg_file # cfg

\* line 126: if cfg
ShouldRecurse(cfg) == cfg # ""

Reverse(l) == [i \in 1..Len(l) |-> l[Len(l) + 1 - i]]

\* mutant of SetDefaultBase: the BASE list walked from its end
SetDefaultBaseReversed(f) == IF f.base = None THEN <<"">> ELSE Reverse(f.base[1])

\* line 125: yaml_cfg.setdefault('BASE', [''])
SetDefaultBase(f) == IF f.base = None THEN <<"">> ELSE f.base[1]

\* a call's frame: its cfg_file, the line it is at (122 or 125), and inside
\* the for loop the list it iterates and the position in it
Frame(name) == [cfg_file |-> name, line |-> 122, bases |-> <<>>, i |-> 1]

Top == stack[Len(stack)]

\* an exception leaves every active call and the calling script: neither
\* function has a handler
Raise(kind) ==
    /\ stack' = <<>>
    /\ pc' = "raised"
    /\ err' = kind

\* lines 122-124: defrost, open and yaml.load. The file's content is drawn
\* when the run first opens it.
Load ==
    /\ stack # <<>>
    /\ Top.line = 122
    /\ immutable' = defrost
    /\ LET name == Top.cfg_file
       IN  IF name = Missing
           THEN Raise("IOError") /\ UNCHANGED fs
           ELSE IF name = Malformed
           THEN Raise("ParseError") /\ UNCHANGED fs
           ELSE /\ IF fs[name].read
                   THEN UNCHANGED fs
                   ELSE \E c \in ContentsOfSize[Remaining] :
                            fs' = [fs EXCEPT ![name] = c]
                /\ stack' = [stack EXCEPT ![Len(stack)] =
                                [@ EXCEPT !.line = 125,
                                          !.bases = SetDefaultBase(fs'[name])]]
                /\ UNCHANGED <<pc, err>>
    /\ UNCHANGED <<cfg_file, args, config, before, applied, wroteFrozen>>

\* lines 125-129: one iteration of the for loop; an empty entry is skipped,
\* any other is a recursive call, which the interpreter refuses with
\* RecursionError once the stack is RecursionLimit deep
ForBase ==
    /\ stack # <<>>
    /\ Top.line = 125
    /\ Top.i <= Len(Top.bases)
    /\ LET cfg == Top.bases[Top.i]
           advanced == [stack EXCEPT ![Len(stack)] = [@ EXCEPT !.i = @ + 1]]
       IN  IF ~ShouldRecurse(cfg)
           THEN stack' = advanced /\ UNCHANGED <<pc, err>>
           ELSE IF Len(stack) >= RecursionLimit
           THEN Raise("RecursionError")
           ELSE stack' = Append(advanced, Frame(cfg)) /\ UNCHANGED <<pc, err>>
    /\ UNCHANGED <<fs, cfg_file, args, config, immutable, before, applied,
                   wroteFrozen>>

\* where the script continues when the outermost call returns
Returned == IF pc = "get_config" THEN "got" ELSE "line144"

\* lines 130-131 after the loop: merge the file's own keys, freeze, return
MergeAndFreeze ==
    /\ stack # <<>>
    /\ Top.line = 125
    /\ Top.i > Len(Top.bases)
    /\ LET r == merge_from_file(config, fs[Top.cfg_file])
       IN  /\ config' = r.config
           /\ wroteFrozen' = (wroteFrozen \/ (immutable /\ r.written > 0))
           /\ IF r.ok
              THEN /\ immutable' = freeze
                   /\ applied' = Append(applied, Top.cfg_file)
                   /\ stack' = SubSeq(stack, 1, Len(stack) - 1)
                   /\ pc' = IF Len(stack) = 1 THEN Returned ELSE pc
                   /\ UNCHANGED err
              ELSE /\ Raise("KeyError")
                   /\ UNCHANGED <<immutable, applied>>
    /\ UNCHANGED <<fs, cfg_file, args, before>>

-----------------------------------------------------------------------------
(* get_config, lines 172-177                                               *)

\* mutant of Clone: the clone handed out frozen
CloneFrozen == [config |-> _C, immutable |-> TRUE]

\* _C.clone(): a deep copy, its flag that of _C, which is never frozen
Clone == [config |-> _C, immutable |-> FALSE]

GetConfig ==
    /\ pc = "start"
    /\ config' = Clone.config
    /\ immutable' = Clone.immutable
    /\ IF TruthyStr(cfg_file)
       THEN /\ stack' = <<Frame(cfg_file[1])>>
            /\ pc' = "get_config"
       ELSE /\ stack' = <<>>
            /\ pc' = "got"
    /\ before' = Clone.config
    /\ applied' = <<>>
    /\ UNCHANGED <<fs, cfg_file, args, err, wroteFrozen>>

-----------------------------------------------------------------------------
(* update_config, lines 134-169                                            *)

\* lines 145-146
SetDataset(c, a) ==
    IF TruthyStr(a.dataset) THEN [c EXCEPT !.DATA_DATASET = a.dataset[1]] ELSE c

\* lines 147-149
SetBatchSize(c, a) ==
    IF TruthyInt(a.batch_size)
    THEN [c EXCEPT !.DATA_BATCH_SIZE = a.batch_size[1],
                   !.DATA_BATCH_SIZE_EVAL = Some(a.batch_size[1])]
    ELSE c

\* lines 150-151
SetBatchSizeEval(c, a) ==
    IF TruthyInt(a.batch_size_eval)
    THEN [c EXCEPT !.DATA_BATCH_SIZE_EVAL = Some(a.batch_size_eval[1])]
    ELSE c

\* lines 152-153
SetImageSize(c, a) ==
    IF TruthyInt(a.image_size)
    THEN [c EXCEPT !.DATA_IMAGE_SIZE = a.image_size[1]] ELSE c

\* lines 154-155
SetAccumIter(c, a) ==
    IF TruthyInt(a.accum_iter)
    THEN [c EXCEPT !.TRAIN_ACCUM_ITER = a.accum_iter[1]] ELSE c

\* lines 156-157
SetDataPath(c, a) ==
    IF TruthyStr(a.data_path)
    THEN [c EXCEPT !.DATA_DATA_PATH = a.data_path[1]] ELSE c

\* lines 158-159
SetEval(c, a) == IF a.eval THEN [c EXCEPT !.EVAL = TRUE] ELSE c

\* lines 160-161
SetPretrained(c, a) ==
    IF TruthyStr(a.pretrained)
    THEN [c EXCEPT !.MODEL_PRETRAINED = Some(a.pretrained[1])] ELSE c

\* lines 162-163
SetResume(c, a) ==
    IF TruthyStr(a.resume)
    THEN [c EXCEPT !.MODEL_RESUME = Some(a.resume[1])] ELSE c

\* lines 164-165
SetLastEpoch(c, a) ==
    IF TruthyInt(a.last_epoch)
    THEN [c EXCEPT !.TRAIN_LAST_EPOCH = a.last_epoch[1]] ELSE c

\* mutant of SetAmp: amp applied without looking at EVAL
SetAmpIgnoringEval(c, a) == IF a.amp THEN [c EXCEPT !.AMP = TRUE] ELSE c

\* lines 166-167
SetAmp(c, a) == IF a.amp THEN [c EXCEPT !.AMP = ~c.EVAL] ELSE c

\* lines 145-167 in their order; each is an attribute assignment, made after
\* the defrost of line 144
Overrides(c, a) ==
    SetAmp(SetLastEpoch(SetResume(SetPretrained(SetEval(SetDataPath(
        SetAccumIter(SetImageSize(SetBatchSizeEval(SetBatchSize(
            SetDataset(c, a), a), a), a), a), a), a), a), a), a), a)

\* update_config is called with the config get_config returned; lines
\* 142-143 start the merge of args.cfg, without one the call runs to its end
UpdateConfig ==
    /\ pc = "got"
    /\ \E a \in ArgsOfSize[Remaining] :
        /\ args' = a
        /\ IF TruthyStr(a.cfg)
           THEN /\ stack' = <<Frame(a.cfg[1])>>
                /\ pc' = "update_config"
                /\ before' = config
                /\ applied' = <<>>
                /\ UNCHANGED <<config, immutable>>
           ELSE /\ immutable' = defrost
                /\ config' = Overrides(config, a)
                /\ pc' = "done"
                /\ UNCHANGED <<stack, before, applied>>
    /\ UNCHANGED <<fs, cfg_file, err, wroteFrozen>>

\* lines 144-169 once the merge of args.cfg has returned
UpdateConfigArgs ==
    /\ pc = "line144"
    /\ immutable' = defrost
    /\ config' = Overrides(config, args)
    /\ pc' = "done"
    /\ UNCHANGED <<fs, cfg_file, args, stack, err, before, applied, wroteFrozen>>

-----------------------------------------------------------------------------

\* the argument get_config is called with
CfgFiles == {None, Some(""), Some("C"), Some(Missing), Some(Malformed)}

Init ==
    /\ fs = [f \in Files |-> Unread]
    /\ cfg_file \in CfgFiles
    /\ args = NoArgs
    /\ config = _C
    /\ immutable = FALSE
    /\ stack = <<>>
    /\ pc = "start"
    /\ err = "none"
    /\ before = _C
    /\ applied = <<>>
    /\ wroteFrozen = FALSE

Next ==
    \/ GetConfig
    \/ Load
    \/ ForBase
    \/ MergeAndFreeze
    \/ UpdateConfig
    \/ UpdateConfigArgs

Spec == Init /\ [][Next]_vars

\* the interpreter runs the script to its end
FairSpec == Spec /\ WF_vars(Next)

-----------------------------------------------------------------------------
(* Vocabulary of the properties                                            *)

\* the file the outermost _update_config_from_file call was made with
CallRoot ==
    IF TruthyStr(args.cfg) THEN args.cfg[1]
    ELSE IF TruthyStr(cfg_file) THEN cfg_file[1] ELSE ""

\* the outermost call has returned normally to its caller
MergeReturned == pc \in {"got", "line144"} /\ applied # <<>>

BaseList(f) == IF f.base = None THEN <<>> ELSE f.base[1]

HasUnknownKey(f) == \E i \in 1..Len(f.keys) : f.keys[i][1] \notin DOMAIN _C

\* g is a BASE entry of f, as far as the run has read the files
Edge(f, g) ==
    /\ f \in Files /\ g \in Files /\ fs[f].read
    /\ \E i \in 1..Len(BaseList(fs[f])) : BaseList(fs[f])[i] = g

RECURSIVE Descendants(_, _)
Descendants(S, n) ==
    IF n = 0 THEN {}
    ELSE LET D == { g \in Files : \E f \in S : Edge(f, g) }
         IN  D \cup Descendants(D, n - 1)

OnCycle(f) == f \in Descendants({f}, Cardinality(Files))

ReachesCycle(f) ==
    \E g \in {f} \cup Descendants({f}, Cardinality(Files)) : OnCycle(g)

\* depth-first, left-to-right, bases before the file: the order the
\* specification gives for the own keys of the files under name
RECURSIVE ChainOrder(_, _), ListOrder(_, _)
ChainOrder(name, fuel) ==
    IF fuel = 0 \/ name \notin Files THEN <<>>
    ELSE ListOrder(BaseList(fs[name]), fuel - 1) \o <<name>>
ListOrder(l, fuel) ==
    IF l = <<>> THEN <<>>
    ELSE (IF l[1] = "" THEN <<>> ELSE ChainOrder(l[1], fuel))
           \o ListOrder(Tail(l), fuel)

\* the keys a file sets, BASE among them when it has one, and their values
KeysOf(f) ==
    { f.keys[i][1] : i \in 1..Len(f.keys) }
      \cup (IF f.base = None THEN {} ELSE {"BASE"})

ValueIn(f, k) ==
    IF k = "BASE" THEN f.base[1]
    ELSE f.keys[CHOOSE i \in 1..Len(f.keys) : f.keys[i][1] = k][2]

\* last file of order that sets k wins, start[k] when none does
LastWins(start, order, k) ==
    LET setters == { i \in 1..Len(order) : k \in KeysOf(fs[order[i]]) }
    IN  IF setters = {} THEN start[k]
        ELSE ValueIn(fs[order[CHOOSE i \in setters :
                                 \A j \in setters : j <= i]], k)

\* what a call has left to do: 1 for lines 130-131, 1 for each BASE entry
\* not yet walked; a call that has not loaded its file counts above any
\* that has
Work(fr) ==
    IF fr.line = 122 THEN MaxSize + 3 ELSE Len(fr.bases) - fr.i + 2

RECURSIVE Pow(_, _)
Pow(b, n) == IF n = 0 THEN 1 ELSE b * Pow(b, n - 1)

\* the active calls read as a number, the outermost call the leading digit
RECURSIVE RankFrom(_)
RankFrom(d) ==
    IF d > Len(stack) THEN 0
    ELSE Work(stack[d]) * Pow(MaxSize + 4, RecursionLimit - d) + RankFrom(d + 1)

CallRank == RankFrom(1)

-----------------------------------------------------------------------------
\* the outermost call has ended, and its file holds a key the default tree
\* does not have
EndedOnUnknownKey ==
    /\ stack = <<>>
    /\ pc \in {"got", "line144", "raised"}
    /\ CallRoot \in Files
    /\ fs[CallRoot].read /\ HasUnknownKey(fs[CallRoot])

\* the keys of f that stand before its first unknown key, BASE among them
KnownPrefix(f) ==
    LET u == CHOOSE i \in 1..Len(f.keys) :
                 /\ f.keys[i][1] \notin DOMAIN _C
                 /\ \A j \in 1..(i - 1) : f.keys[j][1] \in DOMAIN _C
    IN  { f.keys[j][1] : j \in 1..(u - 1) }
          \cup (IF f.base = None THEN {} ELSE {"BASE"})

(* C1, as the specification states it: when the file given to              *)
(* _update_config_from_file holds a key that the default tree does not     *)
(* have, the call fails and no key is applied: config is what it was       *)
(* before the call.                                                        *)
C1_UnknownKeyRejection == EndedOnUnknownKey => (pc = "raised" /\ config = before)

\* every file under the BASE entries of the call's file has been merged
BasesMerged ==
    /\ \A i \in 1..Len(BaseList(fs[CallRoot])) :
           BaseList(fs[CallRoot])[i] \in Files \cup {""}
    /\ applied = ListOrder(BaseList(fs[CallRoot]), Cardinality(Files))

(* C1, amended: the call fails, with KeyError when no file of the BASE     *)
(* chain failed first, and the merge is not undone: config then holds the  *)
(* own keys of every BASE file, merged in order, and over them the keys of *)
(* the file that stand before its first unknown key.                       *)
C1_UnknownKeyFails ==
    EndedOnUnknownKey =>
        /\ pc = "raised"
        /\ BasesMerged
               => /\ err = "KeyError"
                  /\ \A k \in DOMAIN _C :
                        config[k] =
                            IF k \in KnownPrefix(fs[CallRoot])
                            THEN ValueIn(fs[CallRoot], k)
                            ELSE LastWins(before, applied, k)

C1_Witness ==
    /\ EndedOnUnknownKey /\ err = "KeyError"
    /\ BasesMerged /\ applied # <<>>
    /\ KnownPrefix(fs[CallRoot]) # {}
    /\ \E k \in KnownPrefix(fs[CallRoot]) : config[k] # before[k]
    /\ \E k \in DOMAIN _C \ KnownPrefix(fs[CallRoot]) : config[k] # before[k]

(* C2: a normally returned merge has merged the own keys of the files in   *)
(* depth-first, left-to-right order, every base before the file that lists *)
(* it; on every key the last file in that order that sets it wins, and a   *)
(* key no file sets keeps the value it had before the call.                *)
C2_BaseChainingOrder ==
    MergeReturned =>
        LET order == ChainOrder(CallRoot, Cardinality(Files) + 1)
        IN  /\ applied = order
            /\ \A k \in DOMAIN _C : config[k] = LastWins(before, order, k)

\* the chain A, B (BASE: [A]), C (BASE: [B]): BASE is set by B and by C and
\* C, merged last, wins; TRAIN_LAST_EPOCH is set by A alone; EVAL by no file
C2_Witness ==
    /\ pc = "got"
    /\ applied = <<"A", "B", "C">>
    /\ fs["C"].base = Some(<<"B">>)
    /\ fs["B"].base = Some(<<"A">>)
    /\ fs["A"].keys = << <<"TRAIN_LAST_EPOCH", 5>> >>
    /\ config.BASE = <<"B">>
    /\ config.TRAIN_LAST_EPOCH = 5
    /\ config.EVAL = _C.EVAL

(* C3, as the specification states it: every config get_config returns is *)
(* frozen, with and without a cfg_file.                                    *)
C3_AlwaysFrozen == pc = "got" => immutable

(* C3, amended: get_config returns a frozen config exactly when it was     *)
(* given a non-empty cfg_file; without one it returns the mutable clone.   *)
C3_FrozenIffFile == pc = "got" => (immutable <=> TruthyStr(cfg_file))

C3_Witness == pc = "got" /\ TruthyStr(cfg_file) /\ immutable

(* C4: after update_config every supplied (non-None) option, 0 and ""      *)
(* included, is the value of its config key.                               *)
C4_PresentOptionsApplied ==
    pc = "done" =>
        /\ args.dataset # None => config.DATA_DATASET = args.dataset[1]
        /\ args.batch_size # None => config.DATA_BATCH_SIZE = args.batch_size[1]
        /\ args.batch_size_eval # None =>
               config.DATA_BATCH_SIZE_EVAL = args.batch_size_eval
        /\ args.image_size # None => config.DATA_IMAGE_SIZE = args.image_size[1]
        /\ args.accum_iter # None => config.TRAIN_ACCUM_ITER = args.accum_iter[1]
        /\ args.data_path # None => config.DATA_DATA_PATH = args.data_path[1]
        /\ args.pretrained # None => config.MODEL_PRETRAINED = args.pretrained
        /\ args.resume # None => config.MODEL_RESUME = args.resume
        /\ args.last_epoch # None => config.TRAIN_LAST_EPOCH = args.last_epoch[1]

(* C5, as the specification states it: update_config with amp and eval     *)
(* gives EVAL and not AMP; with amp and without eval it gives AMP, whatever *)
(* the config it starts from.                                              *)
C5_AmpGatingAnyStart ==
    (pc = "done" /\ args.amp) =>
        IF args.eval THEN config.EVAL /\ ~config.AMP ELSE config.AMP

(* C5, amended: with amp and eval, EVAL and not AMP; with amp and without  *)
(* eval, AMP is the negation of the EVAL the defaults and the YAML chain   *)
(* left, which the call does not change.                                   *)
C5_AmpGating ==
    (pc = "done" /\ args.amp) =>
        /\ args.eval => (config.EVAL /\ ~config.AMP)
        /\ ~args.eval => (config.AMP = ~config.EVAL
                          /\ config.EVAL = LastWins(before, applied, "EVAL"))

C5_Witness ==
    /\ pc = "done" /\ args.amp /\ ~args.eval
    /\ applied # <<>> /\ config.EVAL /\ ~config.AMP

(* C6: after update_config with a non-None batch_size b, DATA.BATCH_SIZE   *)
(* is b and DATA.BATCH_SIZE_EVAL is the supplied batch_size_eval, or b     *)
(* when none was supplied.                                                 *)
C6_BatchSizePrecedence ==
    (pc = "done" /\ args.batch_size # None) =>
        /\ config.DATA_BATCH_SIZE = args.batch_size[1]
        /\ config.DATA_BATCH_SIZE_EVAL =
               (IF args.batch_size_eval # None THEN args.batch_size_eval
                ELSE args.batch_size)

(* C7, as the specification states it: whenever a call of                  *)
(* _update_config_from_file ends, by return or by an exception, config is  *)
(* frozen.                                                                 *)
C7_RefreezesOnEveryExit == [][Len(stack') < Len(stack) => immutable']_vars

(* C7, amended: whenever a call of _update_config_from_file returns        *)
(* normally, config is frozen; a call an exception ends freezes nothing.   *)
C7_RefreezesOnReturn ==
    [][/\ (Len(stack') < Len(stack) /\ pc' # "raised") => immutable'
       /\ pc' = "raised" => (immutable' => immutable)]_vars

C7_Witness ==
    /\ pc = "update_config" /\ stack # <<>> /\ applied # <<>> /\ immutable

(* C8: no key is written into config while it is frozen.                   *)
C8_FreezeDiscipline == ~wroteFrozen

(* C9, as the specification states it: when the BASE entries under the     *)
(* file lead back to a file, the recursion never reaches the merge of any  *)
(* file's own keys.                                                        *)
C9_CycleMergesNothing ==
    ReachesCycle(CallRoot) => applied = <<>>

(* C9, amended: every call ends. There is no cycle guard: a call on a file *)
(* whose BASE entries lead back to a file never returns normally, it ends  *)
(* in an exception, RecursionError unless another comes first, and the own *)
(* keys of a file that leads to a cycle are never merged; a call on an     *)
(* acyclic chain never meets RecursionError.                               *)
(* Termination is stated by a measure: while a call is active some step is  *)
(* possible and every step lowers CallRank, a natural number.              *)
C9_Termination ==
    /\ [](\A i \in 1..Len(applied) : ~ReachesCycle(applied[i]))
    /\ [](err = "RecursionError" => ReachesCycle(CallRoot))
    /\ [](stack # <<>> => ENABLED Next)
    /\ [][stack # <<>> => CallRank' < CallRank]_vars

(* C9, the same termination as a liveness property of the fair             *)
(* specification: every active call ends.                                  *)
C9_EveryCallEnds == (stack # <<>>) ~> (stack = <<>>)

C9_Witness ==
    /\ pc = "raised" /\ err = "RecursionError"
    /\ ReachesCycle(CallRoot) /\ applied # <<>>

(* C10: in every config update_config returns, AMP implies not EVAL.       *)
C10_AmpOnlyWhenTraining == pc = "done" => (config.AMP => ~config.EVAL)

====
